---- MODULE Spec2Model ----
(***************************************************************************)
(* Model of src/args.hpp: class tempest::Arguments, the command line       *)
(* resolver of the WeatherFlow Tempest UDP relay.                          *)
(*                                                                         *)
(* Text (char*, std::string) is a sequence of one-character strings.       *)
(* The presence bitmask cmdl_ is the set of the bits that are set in it,   *)
(* each bit named by its numeric value: c & m is c \cap m, c | m is        *)
(* c \cup m, ~m is AllBits \ m, and "c is non-zero" is c # {}.             *)
(***************************************************************************)
EXTENDS Integers, Sequences, FiniteSets, TLC

\* ------------------------------------------------------------------ bounds

\* most argv elements after the program name
MaxArgs == 3
\* most argv elements after the program name when the rarer spellings are used
MaxEdgeArgs == 2
\* most resolvers constructed in one process (specification Spec2)
MaxConstructions == 2

\* ------------------------------------------------------------ text helpers

Digits == <<"0", "1", "2", "3", "4", "5", "6", "7", "8", "9">>

IsDigit(c) == \E i \in 1..10 : Digits[i] = c

DigitVal(c) == (CHOOSE i \in 1..10 : Digits[i] = c) - 1

\* std::isspace / the regex class \s
IsSpace(c) == c \in {" ", "\t", "\n", "\r", "\f"}

\* operator<<(ostream&, int) for a non-negative int
RECURSIVE DecNat(_)
DecNat(n) == IF n < 10 THEN <<Digits[n + 1]>>
             ELSE DecNat(n \div 10) \o <<Digits[(n % 10) + 1]>>

\* operator<<(ostream&, int)
Dec(n) == IF n < 0 THEN <<"-">> \o DecNat(-n) ELSE DecNat(n)

IsPrefix(p, s) == Len(p) <= Len(s) /\ SubSeq(s, 1, Len(p)) = p

\* index of the first "=" of s, 0 when there is none (strchr)
RECURSIVE FindEq(_, _)
FindEq(s, i) == IF i > Len(s) THEN 0
                ELSE IF s[i] = "=" THEN i
                ELSE FindEq(s, i + 1)

INT_MAX == 2147483647

\* --------------------------------------------------------------- constants

TEMPEST_ARG_URL == 1
TEMPEST_ARG_FORMAT == 2
TEMPEST_ARG_INTERVAL == 4
TEMPEST_ARG_LOG == 8
TEMPEST_ARG_DAEMON == 16
TEMPEST_ARG_TRACE == 32
TEMPEST_ARG_STOP == 64
TEMPEST_ARG_VERSION == 128
TEMPEST_ARG_HELP == 256
TEMPEST_ARG_EMPTY == 16384
TEMPEST_ARG_INVALID == 32768

\* the bits of an int that the program ever names
AllBits == {TEMPEST_ARG_URL, TEMPEST_ARG_FORMAT, TEMPEST_ARG_INTERVAL, TEMPEST_ARG_LOG,
            TEMPEST_ARG_DAEMON, TEMPEST_ARG_TRACE, TEMPEST_ARG_STOP, TEMPEST_ARG_VERSION,
            TEMPEST_ARG_HELP, TEMPEST_ARG_EMPTY, TEMPEST_ARG_INVALID}

TEMPEST_REQ_RELAY(c) == (c \cap {TEMPEST_ARG_URL}) = {TEMPEST_ARG_URL}
TEMPEST_REQ_TRACE(c) == (c \cap {TEMPEST_ARG_TRACE}) = {TEMPEST_ARG_TRACE}
TEMPEST_REQ_STOP(c) == (c \cap {TEMPEST_ARG_STOP}) = {TEMPEST_ARG_STOP}
TEMPEST_REQ_VERSION(c) == (c \cap {TEMPEST_ARG_VERSION}) = {TEMPEST_ARG_VERSION}
TEMPEST_REQ_HELP(c) == (c \cap {TEMPEST_ARG_HELP}) = {TEMPEST_ARG_HELP}

\* TEMPEST_UDP_TRACE with TEMPEST_ARG_LOG added to its mask
TEMPEST_UDP_TRACE_WithLog(c) ==
    (c \cap {TEMPEST_ARG_TRACE, TEMPEST_ARG_FORMAT, TEMPEST_ARG_INTERVAL, TEMPEST_ARG_LOG})
        = {TEMPEST_ARG_TRACE}

TEMPEST_UDP_TRACE(c) ==
    (c \cap {TEMPEST_ARG_TRACE, TEMPEST_ARG_FORMAT, TEMPEST_ARG_INTERVAL}) = {TEMPEST_ARG_TRACE}

\* TEMPEST_INV_RELAY masking the selectors of the other commands only
TEMPEST_INV_RELAY_ForeignOnly(c) ==
    c \cap {TEMPEST_ARG_TRACE, TEMPEST_ARG_STOP, TEMPEST_ARG_VERSION, TEMPEST_ARG_HELP}

\* TEMPEST_INV_RELAY with TEMPEST_ARG_DAEMON left out of the allowed bits
TEMPEST_INV_RELAY_NoDaemon(c) ==
    c \cap (AllBits \ {TEMPEST_ARG_URL, TEMPEST_ARG_FORMAT, TEMPEST_ARG_INTERVAL,
                       TEMPEST_ARG_LOG})

\* TEMPEST_INV_STOP with TEMPEST_ARG_LOG among the allowed bits
TEMPEST_INV_STOP_AllowLog(c) == c \cap (AllBits \ {TEMPEST_ARG_STOP, TEMPEST_ARG_LOG})

\* TEMPEST_INV_HELP without TEMPEST_ARG_EMPTY among the allowed bits
TEMPEST_INV_HELP_NoEmpty(c) == c \cap (AllBits \ {TEMPEST_ARG_HELP})

\* the TEMPEST_INV_* macros expand to an int: here the set of its bits
TEMPEST_INV_RELAY(c) ==
    c \cap (AllBits \ {TEMPEST_ARG_URL, TEMPEST_ARG_FORMAT, TEMPEST_ARG_INTERVAL,
                       TEMPEST_ARG_LOG, TEMPEST_ARG_DAEMON})
TEMPEST_INV_TRACE(c) ==
    c \cap (AllBits \ {TEMPEST_ARG_TRACE, TEMPEST_ARG_FORMAT, TEMPEST_ARG_INTERVAL,
                       TEMPEST_ARG_LOG})
TEMPEST_INV_STOP(c) == c \cap (AllBits \ {TEMPEST_ARG_STOP})
TEMPEST_INV_VERSION(c) == c \cap (AllBits \ {TEMPEST_ARG_VERSION})
TEMPEST_INV_HELP(c) == c \cap (AllBits \ {TEMPEST_ARG_HELP, TEMPEST_ARG_EMPTY})

\* enum DataFormat: the number of each enumerator
DataFormat == [JSON |-> 0, REST |-> 1, ECOWITT |-> 2]

\* format_native[num], indexed here by num + 1
format_native == <<"JSON", "REST", "ECOWITT">>

\* log_native[num], indexed here by num + 1
log_native == <<"OFF", "ERROR", "WARN", "INFO", "DEBUG">>

\* FormatNum2Enum(num, format): [ok, format]; format is untouched on failure
FormatNum2Enum(num, format) ==
    IF num < 1 \/ num > 2 THEN [ok |-> FALSE, format |-> format]
    ELSE [ok |-> TRUE, format |-> format_native[num + 1]]

\* LogNum2Enum(num, log): [ok, log]; log is untouched on failure
LogNum2Enum(num, log) ==
    IF num < 1 \/ num > 4 THEN [ok |-> FALSE, log |-> log]
    ELSE [ok |-> TRUE, log |-> log_native[num + 1]]

\* the range test of case 'i' with the upper limit off by one
IntervalInRange_OffByOne(num) == ~(num < 1 \/ num > 31)

\* the range test of case 'i'
IntervalInRange(num) == ~(num < 1 \/ num > 30)

\* a char* that may be null
NullStr == [null |-> TRUE, s |-> <<>>]
Str(s) == [null |-> FALSE, s |-> s]

RECURSIVE DropLead(_)
DropLead(s) == IF s # <<>> /\ (s[1] = "=" \/ IsSpace(s[1])) THEN DropLead(Tail(s)) ELSE s

RECURSIVE DropTrail(_)
DropTrail(s) == IF s # <<>> /\ IsSpace(s[Len(s)]) THEN DropTrail(SubSeq(s, 1, Len(s) - 1))
                ELSE s

\* Trim(str): regex_replace(str, "^[=\s\t]+|[\s\t]+$", "")
Trim(str) == DropTrail(DropLead(IF str.null THEN <<>> ELSE str.s))

\* std::stoi: skips white space, takes a sign and the longest run of digits;
\* [ok, val], ok = FALSE when it throws (no digit, or out of the range of int)
RECURSIVE SkipSpace(_)
SkipSpace(s) == IF s # <<>> /\ IsSpace(s[1]) THEN SkipSpace(Tail(s)) ELSE s

RECURSIVE DigitRun(_, _)
DigitRun(s, acc) ==
    IF s # <<>> /\ IsDigit(s[1]) /\ acc <= INT_MAX
    THEN DigitRun(Tail(s), acc * 10 + DigitVal(s[1]))
    ELSE acc

stoi(arg) ==
    LET t == SkipSpace(arg)
        neg == t # <<>> /\ t[1] = "-"
        u == IF t # <<>> /\ t[1] \in {"-", "+"} THEN Tail(t) ELSE t
        mag == DigitRun(u, 0)
    IN IF u = <<>> \/ ~IsDigit(u[1]) THEN [ok |-> FALSE, val |-> 0]
       ELSE IF (~neg /\ mag > INT_MAX) \/ (neg /\ mag > INT_MAX + 1)
            THEN [ok |-> FALSE, val |-> 0]
       ELSE [ok |-> TRUE, val |-> IF neg THEN -mag ELSE mag]

\* ------------------------------------------------------------ option table

option_ == <<
    [name |-> <<"u", "r", "l">>, has_arg |-> TRUE, val |-> "u"],
    [name |-> <<"f", "o", "r", "m", "a", "t">>, has_arg |-> TRUE, val |-> "f"],
    [name |-> <<"i", "n", "t", "e", "r", "v", "a", "l">>, has_arg |-> TRUE, val |-> "i"],
    [name |-> <<"l", "o", "g">>, has_arg |-> TRUE, val |-> "l"],
    [name |-> <<"d", "a", "e", "m", "o", "n">>, has_arg |-> FALSE, val |-> "d"],
    [name |-> <<"t", "r", "a", "c", "e">>, has_arg |-> FALSE, val |-> "t"],
    [name |-> <<"s", "t", "o", "p">>, has_arg |-> FALSE, val |-> "s"],
    [name |-> <<"v", "e", "r", "s", "i", "o", "n">>, has_arg |-> FALSE, val |-> "v"],
    [name |-> <<"h", "e", "l", "p">>, has_arg |-> FALSE, val |-> "h"] >>

RECURSIVE ShortOptionsFrom(_)
ShortOptionsFrom(idx) ==
    IF idx > Len(option_) THEN <<>>
    ELSE <<option_[idx].val>> \o (IF option_[idx].has_arg THEN <<":">> ELSE <<>>)
         \o ShortOptionsFrom(idx + 1)

\* ShortOptions(): "-" and, for every entry, its val and ':' when it takes a value
ShortOptions == <<"-">> \o ShortOptionsFrom(1)

\* ------------------------------------------------------------- getopt_long

\* C's argv[i] and argc
Arg(argv, i) == argv[i + 1]
Argc(argv) == Len(argv)

\* what one call of getopt_long hands back: its return value (an option
\* character, "?" for an error, "SOH" for the code 1 of a non-option element,
\* "EOF" for -1), optarg, and the scanner's state after the call: optind and
\* the offset of nextchar in argv[optind] (0 when it is null or at the end)
GetoptRet(value, optarg, oi, nc) ==
    [value |-> value, optarg |-> optarg, optind |-> oi, nextchar |-> nc]

\* position of c in s, 0 when absent (strchr)
RECURSIVE StrChr(_, _, _)
StrChr(s, c, i) == IF i > Len(s) THEN 0
                   ELSE IF s[i] = c THEN i
                   ELSE StrChr(s, c, i + 1)

\* an element "--name" or "--name=value": exact name, else unique abbreviation
ProcessLongOption(argv, oi) ==
    LET e == Arg(argv, oi)
        body == SubSeq(e, 3, Len(e))
        eq == FindEq(body, 1)
        name == IF eq = 0 THEN body ELSE SubSeq(body, 1, eq - 1)
        exact == {i \in 1..Len(option_) : option_[i].name = name}
        abbrev == {i \in 1..Len(option_) : IsPrefix(name, option_[i].name)}
        found == IF exact # {} THEN exact ELSE abbrev
    IN IF Cardinality(found) # 1 THEN GetoptRet("?", NullStr, oi + 1, 0)
       ELSE LET o == option_[CHOOSE i \in found : TRUE]
            IN IF eq # 0
               THEN IF o.has_arg
                    THEN GetoptRet(o.val, Str(SubSeq(body, eq + 1, Len(body))), oi + 1, 0)
                    ELSE GetoptRet("?", NullStr, oi + 1, 0)
               ELSE IF o.has_arg
                    THEN IF oi + 1 < Argc(argv)
                         THEN GetoptRet(o.val, Str(Arg(argv, oi + 1)), oi + 2, 0)
                         ELSE GetoptRet("?", NullStr, oi + 1, 0)
                    ELSE GetoptRet(o.val, NullStr, oi + 1, 0)

\* the next character of a "-abc" element; nc is the offset of that character
ProcessShortOption(argv, oi, nc) ==
    LET e == Arg(argv, oi)
        c == e[nc + 1]
        atEnd == nc + 1 = Len(e)
        oi1 == IF atEnd THEN oi + 1 ELSE oi
        nc1 == IF atEnd THEN 0 ELSE nc + 1
        optstring == Tail(ShortOptions)
        pos == StrChr(optstring, c, 1)
        takes == pos # 0 /\ pos < Len(optstring) /\ optstring[pos + 1] = ":"
    IN IF pos = 0 \/ c \in {":", ";"} THEN GetoptRet("?", NullStr, oi1, nc1)
       ELSE IF takes
            THEN IF ~atEnd
                 THEN GetoptRet(c, Str(SubSeq(e, nc + 2, Len(e))), oi + 1, 0)
                 ELSE IF oi1 = Argc(argv)
                      THEN GetoptRet("?", NullStr, oi1, 0)
                      ELSE GetoptRet(c, Str(Arg(argv, oi1)), oi1 + 1, 0)
            ELSE GetoptRet(c, NullStr, oi1, nc1)

\* getopt_long(argc, argv, ShortOptions(), option_, nullptr) from the scanner
\* state (oi, nc); the leading "-" of the short options selects the mode in
\* which a non-option element is returned as the argument of option code 1
getopt_long(argv, oi, nc) ==
    IF nc # 0 THEN ProcessShortOption(argv, oi, nc)
    ELSE IF oi >= Argc(argv) THEN GetoptRet("EOF", NullStr, oi, 0)
    ELSE LET e == Arg(argv, oi)
         IN IF e = <<"-", "-">> THEN GetoptRet("EOF", NullStr, oi + 1, 0)
            ELSE IF Len(e) < 2 \/ e[1] # "-" THEN GetoptRet("SOH", Str(e), oi + 1, 0)
            ELSE IF e[2] = "-" THEN ProcessLongOption(argv, oi)
            ELSE ProcessShortOption(argv, oi, 1)

\* ------------------------------------------------------------- constructor

\* the defaults with a log_num_ that is not the number of log_
Defaults_LogNum ==
    [url_ |-> <<>>, format_ |-> "REST", interval_ |-> 1, log_ |-> "INFO",
     format_num_ |-> 1, log_num_ |-> 4, cmdl_ |-> {}]

\* the members of an Arguments object after "initialize options to default state"
Defaults ==
    [url_ |-> <<>>, format_ |-> "REST", interval_ |-> 1, log_ |-> "INFO",
     format_num_ |-> 1, log_num_ |-> 3, cmdl_ |-> {}]

Threw(o) == [threw |-> TRUE, obj |-> o]
Went(o) == [threw |-> FALSE, obj |-> o]

\* the body of the switch for one scanned option: [threw, obj]
SwitchCase(o, value, arg) ==
    CASE value = "u" ->
           IF arg = <<>> THEN Threw(o)
           ELSE Went([o EXCEPT !.url_ = arg, !.cmdl_ = @ \cup {TEMPEST_ARG_URL}])
      [] value = "f" ->
           LET n == stoi(arg)
               f == FormatNum2Enum(n.val, o.format_)
           IN IF ~n.ok THEN Threw(o)
              ELSE IF ~f.ok THEN Threw(o)
              ELSE Went([o EXCEPT !.format_ = f.format, !.format_num_ = n.val,
                                  !.cmdl_ = @ \cup {TEMPEST_ARG_FORMAT}])
      [] value = "i" ->
           LET n == stoi(arg)
           IN IF ~n.ok THEN Threw(o)
              ELSE IF ~IntervalInRange(n.val) THEN Threw(o)
              ELSE Went([o EXCEPT !.interval_ = n.val,
                                  !.cmdl_ = @ \cup {TEMPEST_ARG_INTERVAL}])
      [] value = "l" ->
           LET n == stoi(arg)
               l == LogNum2Enum(n.val, o.log_)
           IN IF ~n.ok THEN Threw(o)
              ELSE IF ~l.ok THEN Threw(o)
              ELSE Went([o EXCEPT !.log_ = l.log, !.log_num_ = n.val,
                                  !.cmdl_ = @ \cup {TEMPEST_ARG_LOG}])
      [] value = "d" -> Went([o EXCEPT !.cmdl_ = @ \cup {TEMPEST_ARG_DAEMON}])
      [] value = "t" -> Went([o EXCEPT !.cmdl_ = @ \cup {TEMPEST_ARG_TRACE}])
      [] value = "s" -> Went([o EXCEPT !.cmdl_ = @ \cup {TEMPEST_ARG_STOP}])
      [] value = "v" -> Went([o EXCEPT !.cmdl_ = @ \cup {TEMPEST_ARG_VERSION}])
      [] value = "h" -> Went([o EXCEPT !.cmdl_ = @ \cup {TEMPEST_ARG_HELP}])
      [] OTHER -> Threw(o)

\* the while loop over getopt_long: [threw, obj, optind, nextchar]
RECURSIVE ScanLoop(_, _, _, _)

\* after the switch on r, the result of one call of getopt_long: leave by the
\* exception, or go round the loop
ScanAfterSwitch(argv, r, h) ==
    IF h.threw
    THEN [threw |-> TRUE, obj |-> h.obj, optind |-> r.optind, nextchar |-> r.nextchar]
    ELSE ScanLoop(argv, h.obj, r.optind, r.nextchar)

\* one turn of the loop, r being what getopt_long returned
ScanTurn(argv, o, r) ==
    IF r.value = "EOF"
    THEN [threw |-> FALSE, obj |-> o, optind |-> r.optind, nextchar |-> r.nextchar]
    ELSE ScanAfterSwitch(argv, r, SwitchCase(o, r.value, Trim(r.optarg)))

ScanLoop(argv, o, oi, nc) == ScanTurn(argv, o, getopt_long(argv, oi, nc))

\* the raw trace without the assignment to format_num_
RawTrace_KeepNum(o) == [o EXCEPT !.format_ = "JSON", !.interval_ = 0]

\* the raw trace: what is assigned when TEMPEST_UDP_TRACE(cmdl_) holds
RawTrace(o) == [o EXCEPT !.format_ = "JSON", !.interval_ = 0, !.format_num_ = 0]

\* "check command line semantics": [threw, obj]
CheckSemantics(o) ==
    LET c == o.cmdl_
    IN IF TEMPEST_REQ_RELAY(c)
       THEN IF TEMPEST_INV_RELAY(c) # {} THEN Threw(o) ELSE Went(o)
       ELSE IF TEMPEST_REQ_TRACE(c)
       THEN IF TEMPEST_INV_TRACE(c) # {} THEN Threw(o)
            ELSE IF TEMPEST_UDP_TRACE(c)
                 THEN Went(RawTrace(o))
                 ELSE Went(o)
       ELSE IF TEMPEST_REQ_STOP(c)
       THEN IF TEMPEST_INV_STOP(c) # {} THEN Threw(o) ELSE Went(o)
       ELSE IF TEMPEST_REQ_VERSION(c)
       THEN IF TEMPEST_INV_VERSION(c) # {} THEN Threw(o) ELSE Went(o)
       ELSE IF TEMPEST_REQ_HELP(c)
       THEN IF TEMPEST_INV_HELP(c) # {} THEN Threw(o) ELSE Went(o)
       ELSE IF c # {} THEN Threw(o)
            ELSE Went([o EXCEPT !.cmdl_ = @ \cup {TEMPEST_ARG_EMPTY}])

\* the catch block
CatchInvalid(o) == [o EXCEPT !.cmdl_ = @ \cup {TEMPEST_ARG_INVALID}]

\* the end of the try block and the catch block, m being the outcome of the
\* semantic check
AfterSemantics(m) == IF m.threw THEN CatchInvalid(m.obj) ELSE m.obj

\* the constructor after the scan loop s
AfterScan(s) ==
    [obj |-> IF s.threw THEN CatchInvalid(s.obj) ELSE AfterSemantics(CheckSemantics(s.obj)),
     optind |-> s.optind, nextchar |-> s.nextchar]

\* Arguments(argc, argv), run with getopt's state at (oi, nc):
\* [obj, optind, nextchar]
Arguments(argv, oi, nc) == AfterScan(ScanLoop(argv, Defaults, oi, nc))

\* --------------------------------------------------------------- accessors

IsCommandLineInvalid(o) == (o.cmdl_ \cap {TEMPEST_ARG_INVALID}) # {}

IsCommandLineEmpty(o) == (o.cmdl_ \cap {TEMPEST_ARG_EMPTY}) # {}

\* the caller's variables before an accessor is called with them
Caller ==
    [fn |-> "none", ret |-> FALSE, url |-> <<>>, format |-> "unset", interval |-> -1,
     log |-> "unset", daemon |-> FALSE, str |-> <<>>]

TxtRelay == <<"t", "e", "m", "p", "e", "s", "t", " ", "-", "-", "u", "r", "l", "=">>
TxtTrace == <<"t", "e", "m", "p", "e", "s", "t", " ", "-", "-", "t", "r", "a", "c", "e">>
TxtFormat == <<" ", "-", "-", "f", "o", "r", "m", "a", "t", "=">>
TxtInterval == <<" ", "-", "-", "i", "n", "t", "e", "r", "v", "a", "l", "=">>
TxtLog == <<" ", "-", "-", "l", "o", "g", "=">>
TxtDaemon == <<" ", "-", "-", "d", "a", "e", "m", "o", "n">>
TxtStop == <<"t", "e", "m", "p", "e", "s", "t", " ", "-", "-", "s", "t", "o", "p">>
TxtVersion == <<"t", "e", "m", "p", "e", "s", "t", " ", "-", "-", "v", "e", "r", "s", "i", "o", "n">>
TxtHelp == <<"t", "e", "m", "p", "e", "s", "t", " ", "[", "-", "-", "h", "e", "l", "p", "]">>

\* each accessor maps the object and the caller's variables to the caller's
\* variables after the call, ret being the value returned
IsCommandRelay(o, v) ==
    IF TEMPEST_INV_RELAY(o.cmdl_) # {} THEN [v EXCEPT !.fn = "IsCommandRelay", !.ret = FALSE]
    ELSE LET daemon == (o.cmdl_ \cap {TEMPEST_ARG_DAEMON}) # {}
         IN [v EXCEPT !.fn = "IsCommandRelay", !.ret = TRUE,
                      !.url = o.url_, !.format = o.format_, !.interval = o.interval_,
                      !.log = o.log_, !.daemon = daemon,
                      !.str = TxtRelay \o o.url_ \o TxtFormat \o Dec(o.format_num_)
                              \o TxtInterval \o Dec(o.interval_) \o TxtLog \o Dec(o.log_num_)
                              \o (IF daemon THEN TxtDaemon ELSE <<>>)]

IsCommandTrace(o, v) ==
    IF TEMPEST_INV_TRACE(o.cmdl_) # {} THEN [v EXCEPT !.fn = "IsCommandTrace", !.ret = FALSE]
    ELSE [v EXCEPT !.fn = "IsCommandTrace", !.ret = TRUE,
                   !.format = o.format_, !.interval = o.interval_, !.log = o.log_,
                   !.str = TxtTrace \o TxtFormat \o Dec(o.format_num_)
                           \o TxtInterval \o Dec(o.interval_) \o TxtLog \o Dec(o.log_num_)]

IsCommandStop(o, v) ==
    IF TEMPEST_INV_STOP(o.cmdl_) # {} THEN [v EXCEPT !.fn = "IsCommandStop", !.ret = FALSE]
    ELSE [v EXCEPT !.fn = "IsCommandStop", !.ret = TRUE, !.str = TxtStop]

IsCommandVersion(o, v) ==
    IF TEMPEST_INV_VERSION(o.cmdl_) # {}
    THEN [v EXCEPT !.fn = "IsCommandVersion", !.ret = FALSE]
    ELSE [v EXCEPT !.fn = "IsCommandVersion", !.ret = TRUE, !.str = TxtVersion]

IsCommandHelp(o, v) ==
    IF TEMPEST_INV_HELP(o.cmdl_) # {} THEN [v EXCEPT !.fn = "IsCommandHelp", !.ret = FALSE]
    ELSE [v EXCEPT !.fn = "IsCommandHelp", !.ret = TRUE, !.str = TxtHelp]

\* ------------------------------------------------------------------ inputs

ProgName == <<"t", "e", "m", "p", "e", "s", "t">>

\* spellings of the options on a command line
OptUrl == <<"-", "-", "u", "r", "l">>
OptFormat == <<"-", "-", "f", "o", "r", "m", "a", "t">>
OptInterval == <<"-", "-", "i", "n", "t", "e", "r", "v", "a", "l">>
OptLog == <<"-", "-", "l", "o", "g">>
OptDaemon == <<"-", "-", "d", "a", "e", "m", "o", "n">>
OptTrace == <<"-", "-", "t", "r", "a", "c", "e">>
OptStop == <<"-", "-", "s", "t", "o", "p">>
OptVersion == <<"-", "-", "v", "e", "r", "s", "i", "o", "n">>
OptHelp == <<"-", "-", "h", "e", "l", "p">>

UrlH == <<"h", "t", "t", "p", ":", "/", "/", "h">>
UrlHubitat == <<"h", "t", "t", "p", ":", "/", "/", "h", "u", "b", "i", "t", "a", "t", ".", "l", "o", "c", "a", "l", ":", "3", "9", "5", "0", "1">>

\* "--opt=value" with a text value, and with a number printed in decimal
WithValue(opt, value) == opt \o <<"=">> \o value
WithNumber(opt, n) == WithValue(opt, Dec(n))

TokBogus == <<"-", "-", "b", "o", "g", "u", "s">>
TokPositional == <<"f", "o", "o">>
TokDashDash == <<"-", "-">>

\* the values the numeric options are tried with: both sides of every boundary
FormatValues == {0, 1, 2, 3}
IntervalValues == {0, 1, 30, 31}
LogValues == {0, 1, 4, 5}

\* the common spellings: every option as "--name" or "--name=value", an
\* unknown option, a positional argument and the "--" terminator
CoreTokens ==
    {WithValue(OptUrl, UrlH)}
    \cup {WithNumber(OptFormat, n) : n \in FormatValues}
    \cup {WithNumber(OptInterval, n) : n \in IntervalValues}
    \cup {WithNumber(OptLog, n) : n \in LogValues}
    \cup {OptDaemon, OptTrace, OptStop, OptVersion, OptHelp}
    \cup {TokBogus, TokPositional, TokDashDash}

\* rarer spellings: a value in the next element, a short option with "=value",
\* an empty value, a value that is no number, a cluster of short options,
\* an abbreviated long option
EdgeTokens ==
    {OptUrl,
     <<"-", "u", "=", "h">>,
     WithValue(OptUrl, <<>>),
     WithValue(OptFormat, <<"x">>),
     <<"-", "d", "s">>,
     <<"-", "-", "h", "e">>}

\* the command lines of the "Examples:" of the usage text
UsageExamples ==
    {<<WithValue(OptUrl, UrlHubitat), WithNumber(OptFormat, 2), WithNumber(OptInterval, 5)>>,
     <<<<"-", "u", "=", "1", "9", "2", ".", "1", "6", "8", ".", "1", ".", "1", "0", "0", ":", "3", "9", "5", "0", "0">>, <<"-", "l", "=", "2">>, <<"-", "d">>>>,
     <<OptStop>>}

SeqsUpTo(S, n) == UNION {[1..k -> S] : k \in 0..n}

\* the argument vectors the resolver is run on, argv[0] included
ArgvSet ==
    {<<ProgName>> \o a :
        a \in SeqsUpTo(CoreTokens, MaxArgs)
              \cup SeqsUpTo(CoreTokens \cup EdgeTokens, MaxEdgeArgs)
              \cup UsageExamples}

\* ------------------------------------------------------------------- state

VARIABLES
    argv,       \* the process's argument vector
    optind,     \* getopt's global optind
    nextchar,   \* getopt's position inside a cluster of short options
    objs,       \* the Arguments objects constructed so far, in order
    out         \* the caller's variables after the latest accessor call

vars == <<argv, optind, nextchar, objs, out>>

\* the object the accessors are called on
Cur == objs[Len(objs)]

Init ==
    /\ argv \in ArgvSet
    /\ optind = 1
    /\ nextchar = 0
    /\ objs = <<>>
    /\ out = Caller

\* the state after a constructor call that returned r
Constructed(r) ==
    /\ objs' = Append(objs, r.obj)
    /\ optind' = r.optind
    /\ nextchar' = r.nextchar
    /\ out' = Caller
    /\ UNCHANGED argv

\* Arguments args(argc, argv): the process's resolver
Construct ==
    /\ objs = <<>>
    /\ Constructed(Arguments(argv, optind, nextchar))

\* one more Arguments(argc, argv) in the same process: getopt's state is
\* global and the constructor does not reset it
Reconstruct ==
    /\ objs # <<>>
    /\ Len(objs) < MaxConstructions
    /\ Constructed(Arguments(argv, optind, nextchar))

CallIsCommandLineInvalid ==
    /\ objs # <<>>
    /\ out' = [Caller EXCEPT !.fn = "IsCommandLineInvalid", !.ret = IsCommandLineInvalid(Cur)]
    /\ UNCHANGED <<argv, optind, nextchar, objs>>

CallIsCommandLineEmpty ==
    /\ objs # <<>>
    /\ out' = [Caller EXCEPT !.fn = "IsCommandLineEmpty", !.ret = IsCommandLineEmpty(Cur)]
    /\ UNCHANGED <<argv, optind, nextchar, objs>>

CallIsCommandRelay ==
    /\ objs # <<>>
    /\ out' = IsCommandRelay(Cur, Caller)
    /\ UNCHANGED <<argv, optind, nextchar, objs>>

CallIsCommandTrace ==
    /\ objs # <<>>
    /\ out' = IsCommandTrace(Cur, Caller)
    /\ UNCHANGED <<argv, optind, nextchar, objs>>

CallIsCommandStop ==
    /\ objs # <<>>
    /\ out' = IsCommandStop(Cur, Caller)
    /\ UNCHANGED <<argv, optind, nextchar, objs>>

CallIsCommandVersion ==
    /\ objs # <<>>
    /\ out' = IsCommandVersion(Cur, Caller)
    /\ UNCHANGED <<argv, optind, nextchar, objs>>

CallIsCommandHelp ==
    /\ objs # <<>>
    /\ out' = IsCommandHelp(Cur, Caller)
    /\ UNCHANGED <<argv, optind, nextchar, objs>>

Accessors ==
    \/ CallIsCommandLineInvalid
    \/ CallIsCommandLineEmpty
    \/ CallIsCommandRelay
    \/ CallIsCommandTrace
    \/ CallIsCommandStop
    \/ CallIsCommandVersion
    \/ CallIsCommandHelp

\* a process that constructs its resolver once
Next == Construct \/ Accessors

Spec == Init /\ [][Next]_vars

\* a process that constructs the resolver more than once
Next2 == Construct \/ Reconstruct \/ Accessors

Spec2 == Init /\ [][Next2]_vars

\* ----------------------------------------- the command line as it is written

\* the resolver has been constructed
Built == objs # <<>>

\* the numbers an option is written with on the command lines considered
WrittenNumbers == 0..31

WrittenUrls == {UrlH, UrlHubitat}

Selectors == {OptDaemon, OptTrace, OptStop, OptVersion, OptHelp}

NumberOptions == {OptFormat, OptInterval, OptLog}

UrlElements == {WithValue(OptUrl, u) : u \in WrittenUrls}

NumberElements == {WithNumber(opt, n) : opt \in NumberOptions, n \in WrittenNumbers}

\* the elements that are one whole option in its long spelling, "--name" or
\* "--name=value" with a url or a decimal number
PlainElements == UrlElements \cup NumberElements \cup Selectors

\* the number written in a number element, the url written in a url element
NumberWritten ==
    [e \in NumberElements |->
        CHOOSE n \in WrittenNumbers : \E opt \in NumberOptions : e = WithNumber(opt, n)]

UrlWritten == [e \in UrlElements |-> CHOOSE u \in WrittenUrls : e = WithValue(OptUrl, u)]

\* a command line of such elements only
Plain == \A i \in 2..Len(argv) : argv[i] \in PlainElements

\* the positions at which option opt is written, on a plain command line
Places(opt) ==
    {i \in 2..Len(argv) : argv[i] = opt \/ IsPrefix(opt \o <<"=">>, argv[i])}

Given(opt) == Places(opt) # {}

LastPlace(opt) == CHOOSE i \in Places(opt) : \A j \in Places(opt) : j <= i

\* the number option opt is given last, or its default
LastNumber(opt, default) ==
    IF Given(opt) THEN NumberWritten[argv[LastPlace(opt)]] ELSE default

LastUrl == UrlWritten[argv[LastPlace(OptUrl)]]

NumbersGiven(opt) == {NumberWritten[argv[i]] : i \in Places(opt)}

\* every number written is in the documented range of its option
ValuesValid ==
    /\ NumbersGiven(OptFormat) \subseteq 1..2
    /\ NumbersGiven(OptInterval) \subseteq 1..30
    /\ NumbersGiven(OptLog) \subseteq 1..4

\* a selector of another command than Relay is written
Foreign == Given(OptTrace) \/ Given(OptStop) \/ Given(OptVersion) \/ Given(OptHelp)

AllOptions ==
    {OptUrl, OptFormat, OptInterval, OptLog, OptDaemon, OptTrace, OptStop, OptVersion, OptHelp}

GivenSet == {opt \in AllOptions : Given(opt)}

\* what each accessor returns and hands back for the current object
RelayOut == IsCommandRelay(Cur, Caller)
TraceOut == IsCommandTrace(Cur, Caller)
StopOut == IsCommandStop(Cur, Caller)
VersionOut == IsCommandVersion(Cur, Caller)
HelpOut == IsCommandHelp(Cur, Caller)

Invalid == IsCommandLineInvalid(Cur)
Empty == IsCommandLineEmpty(Cur)

\* an accessor returned false and left the caller's variables alone
Refused(o, fn) == o = [Caller EXCEPT !.fn = fn]

NoCommand ==
    /\ Refused(RelayOut, "IsCommandRelay")
    /\ Refused(TraceOut, "IsCommandTrace")
    /\ Refused(StopOut, "IsCommandStop")
    /\ Refused(VersionOut, "IsCommandVersion")
    /\ Refused(HelpOut, "IsCommandHelp")

\* ------------------------------------------------------------------ claims

\* C1 as stated: on a command line of the program name alone the resolver is
\* Empty, not Invalid, and all five command accessors return false.
C1_AllAccessorsFalse ==
    (Built /\ Len(argv) = 1) => (Empty /\ ~Invalid /\ NoCommand)

\* C1, amended: on a command line of the program name alone the resolver is
\* Empty and not Invalid, IsCommandRelay, IsCommandTrace, IsCommandStop and
\* IsCommandVersion return false, and IsCommandHelp returns true with the
\* string "tempest [--help]".
C1_EmptyIsHelp ==
    (Built /\ Len(argv) = 1) =>
        /\ Empty
        /\ ~Invalid
        /\ Refused(RelayOut, "IsCommandRelay")
        /\ Refused(TraceOut, "IsCommandTrace")
        /\ Refused(StopOut, "IsCommandStop")
        /\ Refused(VersionOut, "IsCommandVersion")
        /\ HelpOut = [Caller EXCEPT !.fn = "IsCommandHelp", !.ret = TRUE,
                                    !.str = <<"t", "e", "m", "p", "e", "s", "t", " ", "[", "-", "-", "h", "e", "l", "p", "]">>]

C1_Witness ==
    /\ Len(argv) = 1
    /\ Built
    /\ Empty
    /\ out.fn = "IsCommandHelp"
    /\ out.ret

\* C2: two resolvers constructed one after the other from the same argv have
\* the same state and every accessor hands back the same values and string.
C2_Idempotent ==
    \A i, j \in 1..Len(objs) :
        /\ objs[i] = objs[j]
        /\ IsCommandRelay(objs[i], Caller) = IsCommandRelay(objs[j], Caller)
        /\ IsCommandTrace(objs[i], Caller) = IsCommandTrace(objs[j], Caller)
        /\ IsCommandStop(objs[i], Caller) = IsCommandStop(objs[j], Caller)
        /\ IsCommandVersion(objs[i], Caller) = IsCommandVersion(objs[j], Caller)
        /\ IsCommandHelp(objs[i], Caller) = IsCommandHelp(objs[j], Caller)

\* C3: once the resolver is Invalid, IsCommandLineEmpty is false and every
\* command accessor returns false and hands nothing to the caller, whatever
\* was accumulated before the failure.
C3_InvalidExposesNothing ==
    (Built /\ Invalid) => (~Empty /\ NoCommand)

C3_Witness ==
    /\ Built
    /\ Invalid
    /\ TEMPEST_ARG_URL \in Cur.cmdl_
    /\ Cur.url_ # <<>>
    /\ out.fn = "IsCommandRelay"
    /\ ~out.ret

\* element i is taken as the value of the value-taking option before it
RECURSIVE TakenAsValue(_)
TakenAsValue(i) ==
    /\ i > 2
    /\ argv[i - 1] \in {OptUrl, OptFormat, OptInterval, OptLog}
    /\ ~TakenAsValue(i - 1)

\* element i is an unrecognized flag, a value-taking flag without its value,
\* or a bare positional argument
Offending(i) ==
    /\ ~TakenAsValue(i)
    /\ \/ argv[i] = TokBogus
       \/ argv[i] = TokPositional
       \/ argv[i] = WithValue(OptUrl, <<>>)
       \/ argv[i] \in {OptUrl, OptFormat, OptInterval, OptLog} /\ i = Len(argv)

\* C4: a command line with an unrecognized flag, a value-taking flag without
\* its value or a bare positional argument at any position is Invalid.
C4_NoPartialAcceptance ==
    (Built /\ \E i \in 2..Len(argv) : Offending(i)) => Invalid

\* C5: with all values valid, Relay is resolved iff --url is written and none
\* of --trace, --stop, --version, --help is, whatever the other options and
\* their order; --url with one of those four is Invalid.
C5_RelayIff ==
    (Built /\ Plain /\ ValuesValid) =>
        /\ RelayOut.ret <=> (Given(OptUrl) /\ ~Foreign)
        /\ (Given(OptUrl) /\ Foreign) => Invalid

C5_Witness ==
    /\ Built
    /\ Plain
    /\ Len(argv) = 4
    /\ argv[2] = OptDaemon
    /\ Given(OptLog)
    /\ argv[4] = WithValue(OptUrl, UrlH)
    /\ out.fn = "IsCommandRelay"
    /\ out.ret
    /\ out.daemon

\* C6: when Trace is resolved, format is raw (number 0) and interval is 0
\* exactly when neither --format nor --interval is written (--log may be);
\* otherwise each is the value written, or its default REST and 1.
C6_TraceRaw ==
    (Built /\ Plain /\ TraceOut.ret) =>
        IF ~Given(OptFormat) /\ ~Given(OptInterval)
        THEN /\ DataFormat[TraceOut.format] = 0
             /\ TraceOut.interval = 0
        ELSE /\ DataFormat[TraceOut.format] = LastNumber(OptFormat, 1)
             /\ TraceOut.format \in {"REST", "ECOWITT"}
             /\ TraceOut.interval = LastNumber(OptInterval, 1)

C6_Witness ==
    /\ Built
    /\ Plain
    /\ Given(OptTrace)
    /\ Given(OptLog)
    /\ out.fn = "IsCommandTrace"
    /\ out.ret
    /\ out.format = "JSON"
    /\ out.interval = 0

\* C7: --interval accepts exactly 1..30, --format exactly 1..2 and --log
\* exactly 1..4: a value outside makes the command line Invalid whatever else
\* is written, and a Relay or Trace command line is resolved iff all its
\* values are inside.
C7_Ranges ==
    (Built /\ Plain) =>
        /\ ~ValuesValid => (Invalid /\ NoCommand)
        /\ (Given(OptUrl) /\ ~Foreign) => (RelayOut.ret <=> ValuesValid)
        /\ (Given(OptTrace) /\ GivenSet \subseteq {OptTrace, OptFormat, OptInterval, OptLog})
               => (TraceOut.ret <=> ValuesValid)

C7_Witness ==
    /\ Built
    /\ Plain
    /\ \E i \in 2..Len(argv) : argv[i] = WithNumber(OptInterval, 30)
    /\ \E i \in 2..Len(argv) : argv[i] = WithNumber(OptLog, 4)
    /\ out.fn = "IsCommandRelay"
    /\ out.ret
    /\ out.interval = 30
    /\ out.log = "DEBUG"

CanonicalRelay(o) ==
    ProgName \o <<" ">> \o WithValue(OptUrl, o.url)
    \o <<" ">> \o WithNumber(OptFormat, DataFormat[o.format])
    \o <<" ">> \o WithNumber(OptInterval, o.interval)
    \o <<" ">> \o WithNumber(OptLog, LastNumber(OptLog, 3))
    \o (IF o.daemon THEN <<" ">> \o OptDaemon ELSE <<>>)

UsageExampleRelay ==
    <<ProgName, WithValue(OptUrl, UrlHubitat), WithNumber(OptFormat, 2),
      WithNumber(OptInterval, 5)>>

\* C9: when Relay is resolved, IsCommandRelay hands back the url written, the
\* values written or the defaults (format REST, interval 1, log rank 3, no
\* daemon) and the string "tempest --url=<url> --format=<n> --interval=<n>
\* --log=<n>[ --daemon]" in that order whatever the order on the command line.
C9_RelayPayload ==
    (Built /\ Plain /\ RelayOut.ret) =>
        /\ RelayOut.url = LastUrl
        /\ RelayOut.format \in {"REST", "ECOWITT"}
        /\ DataFormat[RelayOut.format] = LastNumber(OptFormat, 1)
        /\ RelayOut.interval = LastNumber(OptInterval, 1)
        /\ RelayOut.log = log_native[LastNumber(OptLog, 3) + 1]
        /\ RelayOut.daemon = Given(OptDaemon)
        /\ RelayOut.str = CanonicalRelay(RelayOut)
        /\ argv = UsageExampleRelay =>
              /\ RelayOut.format = "ECOWITT"
              /\ RelayOut.interval = 5
              /\ RelayOut.log = "INFO"
              /\ ~RelayOut.daemon
              /\ RelayOut.str = <<"t", "e", "m", "p", "e", "s", "t", " ", "-", "-", "u", "r", "l", "=", "h", "t", "t", "p", ":", "/", "/", "h", "u", "b", "i", "t", "a", "t", ".", "l", "o", "c", "a", "l", ":", "3", "9", "5", "0", "1", " ", "-", "-", "f", "o", "r", "m", "a", "t", "=", "2", " ", "-", "-", "i", "n", "t", "e", "r", "v", "a", "l", "=", "5", " ", "-", "-", "l", "o", "g", "=", "3">>

C9_Witness ==
    /\ Built
    /\ argv = UsageExampleRelay
    /\ out.fn = "IsCommandRelay"
    /\ out.ret
    /\ out.url = UrlHubitat

\* C10: for every command line, Relay hands back an interval in 1..30, REST
\* or ECOWITT and a url that is not empty; Trace hands back either raw and 0
\* or REST/ECOWITT and 1..30; interval 0 and the raw format only occur
\* together; the format number printed is the number of the format handed back.
C10_Sentinels ==
    Built =>
        /\ RelayOut.ret =>
              /\ RelayOut.interval \in 1..30
              /\ RelayOut.format \in {"REST", "ECOWITT"}
              /\ RelayOut.url # <<>>
              /\ IsPrefix(ProgName \o <<" ">> \o WithValue(OptUrl, RelayOut.url) \o <<" ">>
                          \o WithNumber(OptFormat, DataFormat[RelayOut.format]) \o <<" ">>,
                          RelayOut.str)
        /\ TraceOut.ret =>
              /\ \/ TraceOut.format = "JSON" /\ TraceOut.interval = 0
                 \/ TraceOut.format \in {"REST", "ECOWITT"} /\ TraceOut.interval \in 1..30
              /\ IsPrefix(ProgName \o <<" ">> \o OptTrace \o <<" ">>
                          \o WithNumber(OptFormat, DataFormat[TraceOut.format]) \o <<" ">>,
                          TraceOut.str)
        /\ (Cur.interval_ = 0) <=> (Cur.format_ = "JSON")

C10_Witness ==
    /\ Built
    /\ argv = <<ProgName, OptTrace>>
    /\ out.fn = "IsCommandTrace"
    /\ out.ret
    /\ out.format = "JSON"
    /\ out.interval = 0
    /\ out.str = <<"t", "e", "m", "p", "e", "s", "t", " ", "-", "-", "t", "r", "a", "c", "e", " ", "-", "-", "f", "o", "r", "m", "a", "t", "=", "0", " ", "-", "-", "i", "n", "t", "e", "r", "v", "a", "l", "=", "0", " ", "-", "-", "l", "o", "g", "=", "3">>
====
